---------------------------- MODULE Spec2Model ----------------------------
(***************************************************************************)
(* A model of the swift-posix process shim and its out-of-process test    *)
(* helper.                                                                 *)
(*                                                                         *)
(*   - Sources/CPOSIXProcessShim/include/shim.h: the wait-status wrappers  *)
(*     swift_WIFEXITED ... swift_WCOREDUMP and swift_posix_spawn.          *)
(*   - Sources/CPOSIXTestHelper/main.c: the helper executable, one action  *)
(*     per step of main between two system calls.                          *)
(*                                                                         *)
(* The wait-status macros are those of <sys/wait.h> on Linux/glibc        *)
(* (bits/waitstatus.h); signal and errno numbers are the Linux ones.       *)
(* The kernel side of each system call (setsid, setpgid, fork, waitpid,    *)
(* kill, exit) follows POSIX.                                              *)
(***************************************************************************)
EXTENDS Integers, Sequences, FiniteSets, TLC

(***************************************************************************)
(* Bounds of the model.                                                    *)
(***************************************************************************)
\* Process ids range over 1..MaxPid: 1 is init, 2 the test process.
MaxPid == 4
\* Signal numbers range over 1..MaxSignal.
MaxSignal == 64
\* Integer arguments below 0 and above 255 given to the helper.
ArgSlack == 2
\* The test process calls wait on the helper at most MaxWaits times.
MaxWaits == 4

(***************************************************************************)
(* Platform constants: <errno.h>, <signal.h>.                              *)
(***************************************************************************)
EPERM == 1
ESRCH == 3
EINTR == 4
ECHILD == 10
EAGAIN == 11
SIGKILL == 9
SIGCONT == 18
SIGSTOP == 19

(***************************************************************************)
(* <sys/wait.h>: the status word and its macros (glibc bits/waitstatus.h). *)
(* x & 0x7f is x % 128, x & 0xff is x % 256, (x & 0xff00) >> 8 is          *)
(* (x \div 256) % 256, on two's complement ints.                           *)
(***************************************************************************)
W_CONTINUED == 65535
WCOREFLAG == 128

\* The value of an int converted to signed char.
SignedChar(x) == LET b == x % 256 IN IF b >= 128 THEN b - 256 ELSE b

\* C's truth value of a comparison.
CBool(b) == IF b THEN 1 ELSE 0

W_EXITCODE(ret, sig) == ret * 256 + sig
W_STOPCODE(sig) == sig * 256 + 127

WEXITSTATUS(status) == (status \div 256) % 256
WTERMSIG(status) == status % 128
WSTOPSIG(status) == WEXITSTATUS(status)
WIFEXITED(status) == CBool(WTERMSIG(status) = 0)
WIFSIGNALED(status) == CBool(SignedChar((status % 128) + 1) \div 2 > 0)
WIFSTOPPED(status) == CBool(status % 256 = 127)
WIFCONTINUED(status) == CBool(status = W_CONTINUED)
WCOREDUMP(status) == IF (status \div 128) % 2 = 1 THEN WCOREFLAG ELSE 0

(***************************************************************************)
(* shim.h: the wrappers that expose the macros.                            *)
(***************************************************************************)
swift_WIFEXITED(status) == WIFEXITED(status)

swift_WEXITSTATUS(status) == WEXITSTATUS(status)

swift_WIFSIGNALED(status) == WIFSIGNALED(status)

swift_WTERMSIG(status) == WTERMSIG(status)

\* A copy-and-paste slip: the wrapper returns the stop signal field.
swift_WIFSTOPPED_AsStopSig(status) == WSTOPSIG(status)

swift_WIFSTOPPED(status) == WIFSTOPPED(status)

swift_WSTOPSIG(status) == WSTOPSIG(status)

swift_WIFCONTINUED(status) == WIFCONTINUED(status)

swift_WCOREDUMP(status) == WCOREDUMP(status)

(***************************************************************************)
(* State.                                                                  *)
(***************************************************************************)
VARIABLES
  argv,          \* the helper's argument vector; argv[1] is C's argv[0]
  attr,          \* the spawn attribute the helper was started with
  sigchldIgn,    \* whether the helper was started with SIGCHLD ignored
  proc,          \* the kernel's process table
  hpid,          \* the helper's pid, 0 before it is spawned
  hpc,           \* the helper's position in main
  child,         \* main's local `child` in fork-exit, 0 before fork returns
  out,           \* the lines written to standard output, in order
  err,           \* the lines written to standard error, in order
  waitLog,       \* what each wait of the test process on the helper returned
  contDelivered, \* the SIGCONTs that resumed the stopped helper
  raw,           \* a raw wait status handed to the status wrappers
  flags          \* the wrappers' results on raw, <<>> before they are applied

vars == <<argv, attr, sigchldIgn, proc, hpid, hpc, child, out, err, waitLog,
          contDelivered, raw, flags>>

\* What a spawn fixes, and what only the test process changes.
spawnVars == <<argv, attr, sigchldIgn, hpid>>
testVars == <<waitLog, contDelivered, raw, flags>>

Pids == 1..MaxPid
InitPid == 1
TestPid == 2

NoProc == [state |-> "free", ppid |-> 0, pgid |-> 0, sid |-> 0,
           status |-> 0, ev |-> "none"]

Live == {"running", "stopped"}

(***************************************************************************)
(* atoi: optional white space, an optional sign, then the leading digits.  *)
(* A string is a sequence of one-character strings.                        *)
(***************************************************************************)
DigitChars == <<"0", "1", "2", "3", "4", "5", "6", "7", "8", "9">>

IsDigit(c) == \E d \in 1..10 : DigitChars[d] = c

DigitVal(c) == (CHOOSE d \in 1..10 : DigitChars[d] = c) - 1

RECURSIVE atoiDigits(_, _)
atoiDigits(s, acc) ==
  IF s = <<>> \/ ~IsDigit(Head(s)) THEN acc
  ELSE atoiDigits(Tail(s), acc * 10 + DigitVal(Head(s)))

RECURSIVE atoiSkipSpace(_)
atoiSkipSpace(s) ==
  IF s # <<>> /\ Head(s) = " " THEN atoiSkipSpace(Tail(s)) ELSE s

atoi(str) ==
  LET s == atoiSkipSpace(str)
  IN  IF s # <<>> /\ Head(s) = "-" THEN 0 - atoiDigits(Tail(s), 0)
      ELSE IF s # <<>> /\ Head(s) = "+" THEN atoiDigits(Tail(s), 0)
      ELSE atoiDigits(s, 0)

(***************************************************************************)
(* The arguments the test process passes: decimal renderings of integers   *)
(* and a few strings that are not numbers.                                 *)
(***************************************************************************)
RECURSIVE DecDigits(_)
DecDigits(n) ==
  IF n < 10 THEN <<DigitChars[n + 1]>>
  ELSE Append(DecDigits(n \div 10), DigitChars[(n % 10) + 1])

Decimal(n) == IF n < 0 THEN <<"-">> \o DecDigits(0 - n) ELSE DecDigits(n)

ArgStrings ==
  {Decimal(n) : n \in (0 - ArgSlack)..(255 + ArgSlack)}
    \cup {<<>>, <<"x">>, <<"7", "x">>, <<" ", "4">>, <<"+", "5">>}

Commands == {"exit", "stop-exit", "verify-parent", "create-session",
             "double-setsid", "become-group-leader", "setpgid-explicit",
             "fork-exit"}

\* The commands that read argv[2].
ArgCommands == {"exit", "stop-exit", "verify-parent", "fork-exit"}

\* The argument vectors: no command, a command alone, a command and one
\* argument. A command that never reads its argument gets one sample of it.
ArgVectors ==
  {<<"posix-test-helper">>}
    \cup {<<"posix-test-helper", c>> : c \in Commands \cup {"bogus"}}
    \cup {<<"posix-test-helper", c, a>> : c \in ArgCommands, a \in ArgStrings}
    \cup {<<"posix-test-helper", c, <<"1">>>> :
            c \in (Commands \cup {"bogus"}) \ ArgCommands}

argc == Len(argv)
cmd == argv[2]
\* int code = argc >= 3 ? atoi(argv[2]) : 0;
code == IF argc >= 3 THEN atoi(argv[3]) ELSE 0

(***************************************************************************)
(* The kernel: process identity, termination, sessions, groups, fork,      *)
(* wait and signals, as POSIX defines them.                                *)
(***************************************************************************)
getppid(pr, p) == pr[p].ppid
getpgid(pr, p) == pr[p].pgid
getsid(pr, p) == pr[p].sid

\* Pids the kernel may hand out: unused as a pid, a group id or a session id.
FreePids(pr) ==
  {p \in Pids : /\ pr[p].state = "free"
                /\ \A q \in Pids : pr[q].pgid # p /\ pr[q].sid # p}

\* A terminated child is reaped at once when its parent is init or ignores
\* SIGCHLD; otherwise it stays a zombie until its parent waits.
AutoReaped(p, ign) == p = InitPid \/ (p = hpid /\ ign)

\* Process p terminates with raw status st. Its children go to init.
Terminate(pr, p, st, ign) ==
  [q \in Pids |->
     IF q = p
       THEN [pr[p] EXCEPT !.state = IF AutoReaped(pr[p].ppid, ign)
                                      THEN "reaped" ELSE "zombie",
                          !.status = st, !.ev = "none"]
     ELSE IF pr[q].ppid = p /\ pr[q].state \in Live
       THEN [pr[q] EXCEPT !.ppid = InitPid]
     ELSE IF pr[q].ppid = p /\ pr[q].state = "zombie"
       THEN [pr[q] EXCEPT !.ppid = InitPid, !.state = "reaped"]
     ELSE pr[q]]

\* A slip: only the low seven bits of the code reach the parent.
ExitProcess_SevenBits(pr, p, c, ign) ==
  Terminate(pr, p, W_EXITCODE(c % 128, 0), ign)

\* exit(code) and return from main: the low eight bits reach the parent.
ExitProcess(pr, p, c, ign) == Terminate(pr, p, W_EXITCODE(c % 256, 0), ign)

\* A slip: only a session leader is refused; a group leader is let through.
setsid_LeaderAllowed(pr, p) ==
  IF pr[p].sid = p
    THEN [ret |-> -1, errno |-> EPERM, proc |-> pr]
    ELSE [ret |-> p, errno |-> 0,
          proc |-> [pr EXCEPT ![p].pgid = p, ![p].sid = p]]

\* setsid(): EPERM when some process group already has the caller's pid as
\* its id (the caller leads a group); else the caller leads a new session
\* and a new group.
setsid(pr, p) ==
  IF \E q \in Pids : pr[q].state \in Live /\ pr[q].pgid = p
    THEN [ret |-> -1, errno |-> EPERM, proc |-> pr]
    ELSE [ret |-> p, errno |-> 0,
          proc |-> [pr EXCEPT ![p].pgid = p, ![p].sid = p]]

\* setpgid(pid, pgid) called by p on itself: 0 stands for the caller.
setpgid(pr, p, pidArg, pgidArg) ==
  LET t == IF pidArg = 0 THEN p ELSE pidArg
      g == IF pgidArg = 0 THEN t ELSE pgidArg
  IN  IF t # p
        THEN [ret |-> -1, errno |-> ESRCH, proc |-> pr]
      ELSE IF pr[t].sid = t
        THEN [ret |-> -1, errno |-> EPERM, proc |-> pr]
      ELSE IF g # t /\ ~\E q \in Pids : /\ pr[q].state \in Live
                                         /\ pr[q].pgid = g
                                         /\ pr[q].sid = pr[t].sid
        THEN [ret |-> -1, errno |-> EPERM, proc |-> pr]
      ELSE [ret |-> 0, errno |-> 0, proc |-> [pr EXCEPT ![t].pgid = g]]

\* fork() called by p: the child c copies p's group and session, or the
\* call fails for want of resources.
fork(pr, p, c) ==
  [pr EXCEPT ![c] = [state |-> "running", ppid |-> p, pgid |-> pr[p].pgid,
                     sid |-> pr[p].sid, status |-> 0, ev |-> "none"]]

\* A slip: a terminated child is reported and left in place, as with WNOWAIT.
waitpid_LeavesZombie(pr, p, c, opts) ==
  IF c \notin Pids \/ pr[c].ppid # p \/ pr[c].state \in {"free", "reaped"}
    THEN [ret |-> -1, errno |-> ECHILD, status |-> 0, proc |-> pr]
  ELSE IF pr[c].state = "zombie"
    THEN [ret |-> c, errno |-> 0, status |-> pr[c].status, proc |-> pr]
  ELSE [ret |-> 0, errno |-> 0, status |-> 0, proc |-> pr]

\* waitpid(c, &status, opts) called by p. A terminated child is reported
\* and reaped; a stop or a continue is reported once and does not reap;
\* ECHILD when c is not an unreaped child of p. "blocks": nothing to report.
waitpid(pr, p, c, opts) ==
  IF c \notin Pids \/ pr[c].ppid # p \/ pr[c].state \in {"free", "reaped"}
    THEN [ret |-> -1, errno |-> ECHILD, status |-> 0, proc |-> pr]
  ELSE IF pr[c].state = "zombie"
    THEN [ret |-> c, errno |-> 0, status |-> pr[c].status,
          proc |-> [pr EXCEPT ![c].state = "reaped"]]
  ELSE IF pr[c].ev = "stopped" /\ "WUNTRACED" \in opts
    THEN [ret |-> c, errno |-> 0, status |-> W_STOPCODE(SIGSTOP),
          proc |-> [pr EXCEPT ![c].ev = "none"]]
  ELSE IF pr[c].ev = "continued" /\ "WCONTINUED" \in opts
    THEN [ret |-> c, errno |-> 0, status |-> W_CONTINUED,
          proc |-> [pr EXCEPT ![c].ev = "none"]]
  ELSE [ret |-> 0, errno |-> 0, status |-> 0, proc |-> pr]

Blocks(r) == r.ret = 0

\* raise(SIGSTOP): the caller stops; its parent may learn of it by wait.
StopProcess(pr, p) == [pr EXCEPT ![p].state = "stopped", ![p].ev = "stopped"]

\* SIGCONT resumes a stopped process and leaves any other as it is.
ContProcess(pr, p) ==
  IF pr[p].state = "stopped"
    THEN [pr EXCEPT ![p].state = "running", ![p].ev = "continued"]
    ELSE pr

(***************************************************************************)
(* main.c: the two printers. A line is who wrote it, its first word and    *)
(* its key=value pairs in order.                                           *)
(***************************************************************************)
print_status(pr, p, status, exit_code) ==
  [by |-> p, tag |-> status,
   kv |-> << <<"pid", p>>, <<"ppid", getppid(pr, p)>>,
             <<"pgid", getpgid(pr, p)>>, <<"sid", getsid(pr, p)>>,
             <<"exit", exit_code>> >>]

\* A slip: the message is printed before the errno.
print_error_MsgFirst(p, e, msg) ==
  [by |-> p, tag |-> "ERR", kv |-> << <<"msg", msg>>, <<"errno", e>> >>]

print_error(p, e, msg) ==
  [by |-> p, tag |-> "ERR", kv |-> << <<"errno", e>>, <<"msg", msg>> >>]

UsageText ==
  <<"Usage: posix-test-helper <command> [args...]",
    "Commands:",
    "  exit <code>           Exit with specified code",
    "  stop-exit <code>      SIGSTOP, then exit when continued",
    "  verify-parent <ppid>  Verify parent PID",
    "  create-session        Create new session (setsid)",
    "  double-setsid         setsid twice, verify EPERM",
    "  become-group-leader   setpgid(0,0)",
    "  setpgid-explicit      setpgid(pid, pid)",
    "  fork-exit <code>      Fork child that exits">>

(***************************************************************************)
(* The initial state: init and the test process exist, the helper has not  *)
(* been spawned.                                                           *)
(***************************************************************************)
Init ==
  /\ argv = <<>>
  /\ attr = "none"
  /\ sigchldIgn = FALSE
  /\ proc = [p \in Pids |->
               IF p = InitPid
                 THEN [state |-> "running", ppid |-> 0, pgid |-> InitPid,
                       sid |-> InitPid, status |-> 0, ev |-> "none"]
               ELSE IF p = TestPid
                 THEN [state |-> "running", ppid |-> InitPid, pgid |-> TestPid,
                       sid |-> TestPid, status |-> 0, ev |-> "none"]
               ELSE NoProc]
  /\ hpid = 0
  /\ hpc = "none"
  /\ child = 0
  /\ out = <<>>
  /\ err = <<>>
  /\ waitLog = <<>>
  /\ contDelivered = 0
  /\ raw = 0
  /\ flags = <<>>

(***************************************************************************)
(* shim.h: swift_posix_spawn. The test process starts the helper with an   *)
(* argument vector; the spawn attributes leave the helper in the test      *)
(* process's group and session, or make it lead a new group                *)
(* (POSIX_SPAWN_SETPGROUP) or a new session (POSIX_SPAWN_SETSID). An       *)
(* ignored SIGCHLD is inherited across exec.                               *)
(***************************************************************************)
swift_posix_spawn(h, av, at, ign) ==
  /\ argv' = av
  /\ attr' = at
  /\ sigchldIgn' = ign
  /\ hpid' = h
  /\ hpc' = "main"
  /\ proc' = [proc EXCEPT ![h] =
                [state |-> "running", ppid |-> TestPid,
                 pgid |-> IF at = "inherit" THEN proc[TestPid].pgid ELSE h,
                 sid |-> IF at = "setsid" THEN h ELSE proc[TestPid].sid,
                 status |-> 0, ev |-> "none"]]
  /\ UNCHANGED <<child, out, err, testVars>>

Spawn ==
  /\ hpid = 0
  /\ \E h \in FreePids(proc), av \in ArgVectors,
        at \in {"inherit", "setpgroup", "setsid"}, ign \in BOOLEAN :
       swift_posix_spawn(h, av, at, ign)

(***************************************************************************)
(* main.c: main. The helper runs only while the kernel has it running.     *)
(***************************************************************************)
AtMain(c) ==
  /\ hpc = "main"
  /\ proc[hpid].state = "running"
  /\ argc >= 2
  /\ cmd = c

\* return v from main, after writing `lines` to standard output.
Return(pr, lines, v) ==
  /\ out' = out \o lines
  /\ proc' = ExitProcess(pr, hpid, v, sigchldIgn)
  /\ hpc' = "exited"

\* argc < 2: the usage text on standard error, return 1.
MainUsage ==
  /\ hpc = "main"
  /\ proc[hpid].state = "running"
  /\ argc < 2
  /\ err' = err \o UsageText
  /\ Return(proc, <<>>, 1)
  /\ UNCHANGED <<spawnVars, child, testVars>>

\* A slip: the code is printed but main returns 0.
CmdExit_ReturnsZero ==
  /\ AtMain("exit")
  /\ Return(proc, <<print_status(proc, hpid, "OK", code)>>, 0)
  /\ UNCHANGED <<spawnVars, child, err, testVars>>

\* exit <code>
CmdExit ==
  /\ AtMain("exit")
  /\ Return(proc, <<print_status(proc, hpid, "OK", code)>>, code)
  /\ UNCHANGED <<spawnVars, child, err, testVars>>

\* A slip: a status line is printed before stopping as well as after.
CmdStopExitRaise_PrintsFirst ==
  /\ AtMain("stop-exit")
  /\ proc' = StopProcess(proc, hpid)
  /\ hpc' = "stop_exit_raised"
  /\ out' = Append(out, print_status(proc, hpid, "OK", code))
  /\ UNCHANGED <<spawnVars, child, err, testVars>>

\* A slip: the stop signal is never raised.
CmdStopExitRaise_NoStop ==
  /\ AtMain("stop-exit")
  /\ proc' = proc
  /\ hpc' = "stop_exit_raised"
  /\ UNCHANGED <<spawnVars, child, out, err, testVars>>

\* stop-exit <code>: raise(SIGSTOP) stops the helper inside the call.
CmdStopExitRaise ==
  /\ AtMain("stop-exit")
  /\ proc' = StopProcess(proc, hpid)
  /\ hpc' = "stop_exit_raised"
  /\ UNCHANGED <<spawnVars, child, out, err, testVars>>

\* stop-exit <code>: once continued, raise returns; print and return code.
CmdStopExitResume ==
  /\ hpc = "stop_exit_raised"
  /\ proc[hpid].state = "running"
  /\ Return(proc, <<print_status(proc, hpid, "OK", code)>>, code)
  /\ UNCHANGED <<spawnVars, child, err, testVars>>

\* A slip: the expected pid is compared with getpid(), not getppid().
CmdVerifyParent_OwnPid ==
  /\ AtMain("verify-parent")
  /\ IF argc < 3
       THEN /\ err' = Append(err, "verify-parent requires <ppid> argument")
            /\ Return(proc, <<>>, 1)
       ELSE LET expected == atoi(argv[3])
                actual == hpid
                ok == actual = expected
            IN  /\ err' = err
                /\ IF ok
                     THEN Return(proc,
                                 <<print_status(proc, hpid, "OK", 0)>>, 0)
                     ELSE Return(proc,
                                 <<[by |-> hpid, tag |-> "ERR",
                                    kv |-> << <<"errno", 0>>,
                                              <<"msg", "ppid_mismatch">>,
                                              <<"expected", expected>>,
                                              <<"actual", actual>> >>]>>,
                                 1)
  /\ UNCHANGED <<spawnVars, child, testVars>>

\* verify-parent <ppid>
CmdVerifyParent ==
  /\ AtMain("verify-parent")
  /\ IF argc < 3
       THEN /\ err' = Append(err, "verify-parent requires <ppid> argument")
            /\ Return(proc, <<>>, 1)
       ELSE LET expected == atoi(argv[3])
                actual == getppid(proc, hpid)
                ok == actual = expected
            IN  /\ err' = err
                /\ IF ok
                     THEN Return(proc,
                                 <<print_status(proc, hpid, "OK", 0)>>, 0)
                     ELSE Return(proc,
                                 <<[by |-> hpid, tag |-> "ERR",
                                    kv |-> << <<"errno", 0>>,
                                              <<"msg", "ppid_mismatch">>,
                                              <<"expected", expected>>,
                                              <<"actual", actual>> >>]>>,
                                 1)
  /\ UNCHANGED <<spawnVars, child, testVars>>

\* A slip: the line reports the ids read before the call.
CmdCreateSession_PrintsOldIds ==
  /\ AtMain("create-session")
  /\ LET r == setsid(proc, hpid)
         sid == r.ret
     IN  IF sid > 0
           THEN Return(r.proc, <<print_status(proc, hpid, "OK", 0)>>, 0)
           ELSE Return(r.proc, <<print_error(hpid, r.errno, "setsid_failed")>>,
                       1)
  /\ UNCHANGED <<spawnVars, child, err, testVars>>

\* create-session
CmdCreateSession ==
  /\ AtMain("create-session")
  /\ LET r == setsid(proc, hpid)
         sid == r.ret
     IN  IF sid > 0
           THEN Return(r.proc, <<print_status(r.proc, hpid, "OK", 0)>>, 0)
           ELSE Return(r.proc, <<print_error(hpid, r.errno, "setsid_failed")>>,
                       1)
  /\ UNCHANGED <<spawnVars, child, err, testVars>>

\* double-setsid: the first setsid().
CmdDoubleSetsidFirst ==
  /\ AtMain("double-setsid")
  /\ LET r == setsid(proc, hpid)
         first == r.ret
     IN  IF first <= 0
           THEN Return(r.proc,
                       <<print_error(hpid, r.errno, "first_setsid_failed")>>,
                       1)
           ELSE /\ proc' = r.proc
                /\ hpc' = "double_setsid_second"
                /\ out' = out
  /\ UNCHANGED <<spawnVars, child, err, testVars>>

\* A slip: the second call is checked against the wrong errno.
CmdDoubleSetsidSecond_WrongErrno ==
  /\ hpc = "double_setsid_second"
  /\ proc[hpid].state = "running"
  /\ LET r == setsid(proc, hpid)
         second == r.ret
         second_failed_eperm == second < 0 /\ r.errno = ESRCH
     IN  IF second_failed_eperm
           THEN Return(r.proc, <<print_status(r.proc, hpid, "OK", 0)>>, 0)
           ELSE Return(r.proc,
                       <<print_error(hpid, r.errno,
                                     "second_setsid_should_fail_eperm")>>,
                       1)
  /\ UNCHANGED <<spawnVars, child, err, testVars>>

\* double-setsid: the second setsid(), which should fail with EPERM.
CmdDoubleSetsidSecond ==
  /\ hpc = "double_setsid_second"
  /\ proc[hpid].state = "running"
  /\ LET r == setsid(proc, hpid)
         second == r.ret
         second_failed_eperm == second < 0 /\ r.errno = EPERM
     IN  IF second_failed_eperm
           THEN Return(r.proc, <<print_status(r.proc, hpid, "OK", 0)>>, 0)
           ELSE Return(r.proc,
                       <<print_error(hpid, r.errno,
                                     "second_setsid_should_fail_eperm")>>,
                       1)
  /\ UNCHANGED <<spawnVars, child, err, testVars>>

\* become-group-leader: setpgid(0, 0).
CmdBecomeGroupLeader ==
  /\ AtMain("become-group-leader")
  /\ LET r == setpgid(proc, hpid, 0, 0)
     IN  IF r.ret # 0
           THEN Return(r.proc, <<print_error(hpid, r.errno, "setpgid_failed")>>,
                       1)
           ELSE /\ proc' = r.proc
                /\ hpc' = "become_group_leader_verify"
                /\ out' = out
  /\ UNCHANGED <<spawnVars, child, err, testVars>>

\* become-group-leader: verify pgid == pid.
CmdBecomeGroupLeaderVerify ==
  /\ hpc = "become_group_leader_verify"
  /\ proc[hpid].state = "running"
  /\ LET pid == hpid
         pgid == getpgid(proc, hpid)
         ok == pgid = pid
     IN  IF ok
           THEN Return(proc, <<print_status(proc, hpid, "OK", 0)>>, 0)
           ELSE Return(proc,
                       <<[by |-> hpid, tag |-> "ERR",
                          kv |-> << <<"errno", 0>>,
                                    <<"msg", "not_group_leader">>,
                                    <<"pid", pid>>, <<"pgid", pgid>> >>]>>,
                       1)
  /\ UNCHANGED <<spawnVars, child, err, testVars>>

\* A slip: the group asked for is the parent's pid, not the caller's.
CmdSetpgidExplicit_ParentGroup ==
  /\ AtMain("setpgid-explicit")
  /\ LET pid == hpid
         r == setpgid(proc, hpid, pid, getppid(proc, hpid))
     IN  IF r.ret # 0
           THEN Return(r.proc,
                       <<print_error(hpid, r.errno,
                                     "setpgid_explicit_failed")>>,
                       1)
           ELSE /\ proc' = r.proc
                /\ hpc' = "setpgid_explicit_verify"
                /\ out' = out
  /\ UNCHANGED <<spawnVars, child, err, testVars>>

\* setpgid-explicit: setpgid(pid, pid) with pid = getpid().
CmdSetpgidExplicit ==
  /\ AtMain("setpgid-explicit")
  /\ LET pid == hpid
         r == setpgid(proc, hpid, pid, pid)
     IN  IF r.ret # 0
           THEN Return(r.proc,
                       <<print_error(hpid, r.errno,
                                     "setpgid_explicit_failed")>>,
                       1)
           ELSE /\ proc' = r.proc
                /\ hpc' = "setpgid_explicit_verify"
                /\ out' = out
  /\ UNCHANGED <<spawnVars, child, err, testVars>>

\* setpgid-explicit: verify getpgid(pid) == pid.
CmdSetpgidExplicitVerify ==
  /\ hpc = "setpgid_explicit_verify"
  /\ proc[hpid].state = "running"
  /\ LET pid == hpid
         pgid == getpgid(proc, pid)
         ok == pgid = pid
     IN  IF ok
           THEN Return(proc, <<print_status(proc, hpid, "OK", 0)>>, 0)
           ELSE Return(proc,
                       <<[by |-> hpid, tag |-> "ERR",
                          kv |-> << <<"errno", 0>>, <<"msg", "pgid_not_set">>,
                                    <<"pid", pid>>, <<"pgid", pgid>> >>]>>,
                       1)
  /\ UNCHANGED <<spawnVars, child, err, testVars>>

\* fork-exit <code>: fork(). c < 0 stands for a failed fork.
CmdForkExitFork ==
  /\ AtMain("fork-exit")
  /\ \E c \in FreePids(proc) \cup {-1} :
       IF c < 0
         THEN /\ Return(proc, <<print_error(hpid, EAGAIN, "fork_failed")>>, 1)
              /\ child' = c
         ELSE /\ proc' = fork(proc, hpid, c)
              /\ child' = c
              /\ hpc' = "fork_exit_wait"
              /\ out' = out
  /\ UNCHANGED <<spawnVars, err, testVars>>

\* A slip: the child falls through to the parent's reporting code before
\* it terminates.
ForkChildExit_FallsThrough ==
  /\ child > 0
  /\ proc[child].state = "running"
  /\ proc' = ExitProcess(proc, child, code, sigchldIgn)
  /\ out' = Append(out, [by |-> child, tag |-> "OK",
                         kv |-> << <<"pid", child>>, <<"child", 0>>,
                                   <<"child_exit", -1>> >>])
  /\ UNCHANGED <<spawnVars, hpc, child, err, testVars>>

\* A slip: the child exits with 0 whatever the code.
ForkChildExit_ExitsZero ==
  /\ child > 0
  /\ proc[child].state = "running"
  /\ proc' = ExitProcess(proc, child, 0, sigchldIgn)
  /\ UNCHANGED <<spawnVars, hpc, child, out, err, testVars>>

\* fork-exit <code>, in the child (fork returned 0): _exit(code).
ForkChildExit ==
  /\ child > 0
  /\ proc[child].state = "running"
  /\ proc' = ExitProcess(proc, child, code, sigchldIgn)
  /\ UNCHANGED <<spawnVars, hpc, child, out, err, testVars>>

\* fork-exit <code>, in the parent: waitpid(child, &status, 0) and report.
CmdForkExitWait ==
  /\ hpc = "fork_exit_wait"
  /\ proc[hpid].state = "running"
  /\ LET r == waitpid(proc, hpid, child, {})
         waited == r.ret
         status == r.status
         child_exit == IF WIFEXITED(status) # 0 THEN WEXITSTATUS(status)
                       ELSE -1
     IN  /\ ~Blocks(r)
         /\ IF waited # child
              THEN Return(r.proc,
                          <<print_error(hpid, r.errno, "waitpid_failed")>>, 1)
              ELSE Return(r.proc,
                          <<[by |-> hpid, tag |-> "OK",
                             kv |-> << <<"pid", hpid>>, <<"child", child>>,
                                       <<"child_exit", child_exit>> >>]>>,
                          0)
  /\ UNCHANGED <<spawnVars, child, err, testVars>>

\* waitpid(c, &status, 0) when a signal wakes the blocked caller before the
\* child has changed state: -1 with errno EINTR, nothing reaped.
waitpid_EINTR(pr, p, c, opts) ==
  LET r == waitpid(pr, p, c, opts)
  IN  IF Blocks(r)
        THEN [ret |-> -1, errno |-> EINTR, status |-> 0, proc |-> pr]
        ELSE r

\* fork-exit <code>, in the parent, when the blocked waitpid is interrupted:
\* the same statements as CmdForkExitWait, run on that return value.
CmdForkExitWaitInterrupted ==
  /\ hpc = "fork_exit_wait"
  /\ proc[hpid].state = "running"
  /\ Blocks(waitpid(proc, hpid, child, {}))
  /\ LET r == waitpid_EINTR(proc, hpid, child, {})
         waited == r.ret
         status == r.status
         child_exit == IF WIFEXITED(status) # 0 THEN WEXITSTATUS(status)
                       ELSE -1
     IN  IF waited # child
           THEN Return(r.proc,
                       <<print_error(hpid, r.errno, "waitpid_failed")>>, 1)
           ELSE Return(r.proc,
                       <<[by |-> hpid, tag |-> "OK",
                          kv |-> << <<"pid", hpid>>, <<"child", child>>,
                                    <<"child_exit", child_exit>> >>]>>,
                       0)
  /\ UNCHANGED <<spawnVars, child, err, testVars>>

\* A slip: an unknown command is reported but main returns 0.
CmdUnknown_ReturnsZero ==
  /\ hpc = "main"
  /\ proc[hpid].state = "running"
  /\ argc >= 2
  /\ cmd \notin Commands
  /\ err' = Append(err, <<"Unknown command: %s", cmd>>)
  /\ Return(proc, <<>>, 0)
  /\ UNCHANGED <<spawnVars, child, testVars>>

\* Any other command: a message on standard error, return 1.
CmdUnknown ==
  /\ hpc = "main"
  /\ proc[hpid].state = "running"
  /\ argc >= 2
  /\ cmd \notin Commands
  /\ err' = Append(err, <<"Unknown command: %s", cmd>>)
  /\ Return(proc, <<>>, 1)
  /\ UNCHANGED <<spawnVars, child, testVars>>

(***************************************************************************)
(* shim.h: the four predicates applied to a raw status.                    *)
(***************************************************************************)
Predicates(status) ==
  <<swift_WIFEXITED(status), swift_WIFSIGNALED(status),
    swift_WIFSTOPPED(status), swift_WIFCONTINUED(status)>>

(***************************************************************************)
(* The test process: it waits on the helper for a termination and, as the  *)
(* options ask, for a stop (WUNTRACED) or a continue (WCONTINUED); it      *)
(* hands each status obtained to the wrappers; it sends SIGCONT.           *)
(***************************************************************************)
TestWait ==
  /\ hpid # 0
  /\ Len(waitLog) < MaxWaits
  /\ \E r \in {waitpid(proc, TestPid, hpid, opts) :
                  opts \in SUBSET {"WUNTRACED", "WCONTINUED"}} :
       /\ ~Blocks(r)
       /\ proc' = r.proc
       /\ waitLog' = Append(waitLog, [ret |-> r.ret, errno |-> r.errno,
                                      status |-> r.status])
       /\ raw' = IF r.ret > 0 THEN r.status ELSE raw
       /\ flags' = IF r.ret > 0 THEN Predicates(r.status) ELSE flags
  /\ UNCHANGED <<spawnVars, hpc, child, out, err, contDelivered>>

\* kill(helper, SIGCONT)
TestCont ==
  /\ hpid # 0
  /\ proc[hpid].state \in Live
  /\ proc' = ContProcess(proc, hpid)
  /\ contDelivered' = IF proc[hpid].state = "stopped" THEN contDelivered + 1
                      ELSE contDelivered
  /\ UNCHANGED <<spawnVars, hpc, child, out, err, waitLog, raw, flags>>

\* kill(helper, SIGKILL): the helper is terminated by the signal.
TestKill ==
  /\ hpid # 0
  /\ proc[hpid].state \in Live
  /\ proc' = Terminate(proc, hpid, SIGKILL, sigchldIgn)
  /\ UNCHANGED <<spawnVars, hpc, child, out, err, testVars>>

Helper ==
  \/ MainUsage
  \/ CmdExit
  \/ CmdStopExitRaise
  \/ CmdStopExitResume
  \/ CmdVerifyParent
  \/ CmdCreateSession
  \/ CmdDoubleSetsidFirst
  \/ CmdDoubleSetsidSecond
  \/ CmdBecomeGroupLeader
  \/ CmdBecomeGroupLeaderVerify
  \/ CmdSetpgidExplicit
  \/ CmdSetpgidExplicitVerify
  \/ CmdForkExitFork
  \/ CmdForkExitWait
  \/ CmdUnknown

\* The helper under the test protocol: the test process spawns it, waits on
\* it and continues it.
Next ==
  \/ Spawn
  \/ Helper
  \/ ForkChildExit
  \/ TestWait
  \/ TestCont

Spec == Init /\ [][Next]_vars

\* The same with a test process that may also kill the helper.
NextKill == Next \/ TestKill

SpecKill == Init /\ [][NextKill]_vars

\* The same as Next with signals that may wake the helper's blocked waitpid.
NextIntr == Next \/ CmdForkExitWaitInterrupted

SpecIntr == Init /\ [][NextIntr]_vars

(***************************************************************************)
(* The raw statuses waitpid can produce: a normal exit with code 0..255,   *)
(* a termination by a signal with or without a core dump, a stop by a      *)
(* signal, a continue.                                                     *)
(***************************************************************************)
Signals == 1..MaxSignal

OSStatuses ==
  {W_EXITCODE(c, 0) : c \in 0..255}
    \cup {W_EXITCODE(0, s) : s \in Signals}
    \cup {W_EXITCODE(0, s) + WCOREFLAG : s \in Signals}
    \cup {W_STOPCODE(s) : s \in Signals}
    \cup {W_CONTINUED}

\* The wrappers applied to one such status.
ApplyPredicates ==
  /\ flags = <<>>
  /\ flags' = Predicates(raw)
  /\ UNCHANGED <<spawnVars, proc, hpc, child, out, err, waitLog,
                 contDelivered, raw>>

InitCodec ==
  /\ raw \in OSStatuses
  /\ flags = <<>>
  /\ argv = <<>>
  /\ attr = "none"
  /\ sigchldIgn = FALSE
  /\ proc = [p \in Pids |-> NoProc]
  /\ hpid = 0
  /\ hpc = "none"
  /\ child = 0
  /\ out = <<>>
  /\ err = <<>>
  /\ waitLog = <<>>
  /\ contDelivered = 0

SpecCodec == InitCodec /\ [][ApplyPredicates]_vars

(***************************************************************************)
(* Shorthands for the properties.                                          *)
(***************************************************************************)
Spawned == hpid # 0
Exited == Spawned /\ hpc = "exited"
Runs(c) == Spawned /\ argc >= 2 /\ cmd = c
ExitStatus(p) == proc[p].status
Terminated(p) == proc[p].state \in {"zombie", "reaped"}
Keys(line) == [i \in 1..Len(line.kv) |-> line.kv[i][1]]
Field(line, k) == line.kv[CHOOSE i \in 1..Len(line.kv) : line.kv[i][1] = k][2]
Msg(line) == IF line.tag = "ERR" THEN Field(line, "msg") ELSE "none"
\* The entries of waitLog that returned a status of the helper.
Reports == {i \in 1..Len(waitLog) : waitLog[i].ret = hpid}

\* StatusCodec.decode: exited first, then signaled, stopped, continued.
decode(status) ==
  IF swift_WIFEXITED(status) # 0 THEN "Exited"
  ELSE IF swift_WIFSIGNALED(status) # 0 THEN "Signaled"
  ELSE IF swift_WIFSTOPPED(status) # 0 THEN "Stopped"
  ELSE IF swift_WIFCONTINUED(status) # 0 THEN "Continued"
  ELSE "Invalid"

\* The outcome of the i-th wait, for i in Reports.
Outcome(i) == decode(waitLog[i].status)

\* The chronological order of a handle's outcomes.
Rank(o) == CASE o = "Stopped" -> 1
             [] o = "Continued" -> 2
             [] OTHER -> 3

ExitOK == W_EXITCODE(0, 0)

(***************************************************************************)
(* C1. For every raw wait status the OS can produce (an exit with code     *)
(* 0..255, a termination by a signal with or without core dump, a stop by  *)
(* a signal, a continue), exactly one of swift_WIFEXITED,                  *)
(* swift_WIFSIGNALED, swift_WIFSTOPPED, swift_WIFCONTINUED is non-zero.    *)
(***************************************************************************)
C1_ExactlyOnePredicate ==
  flags # <<>> => Cardinality({i \in 1..4 : flags[i] # 0}) = 1

\* The status of a continue has gone through the four predicates.
C1_Witness == flags # <<>> /\ raw = W_CONTINUED /\ flags[4] # 0

(***************************************************************************)
(* C2. For every exit code c in 0..255, a helper spawned with `exit c`     *)
(* terminates normally, and the status its parent obtains from wait has    *)
(* swift_WIFEXITED(status) != 0 and swift_WEXITSTATUS(status) == c.        *)
(***************************************************************************)
C2_ExitCodeReachesParent ==
  LET c == code IN
    (Runs("exit") /\ argc >= 3 /\ c \in 0..255 /\ argv[3] = Decimal(c)) =>
      /\ Terminated(hpid) => swift_WIFEXITED(ExitStatus(hpid)) # 0
      /\ \A i \in Reports :
           /\ swift_WIFEXITED(waitLog[i].status) # 0
           /\ swift_WEXITSTATUS(waitLog[i].status) = c

\* The parent has obtained the status of `exit 255`.
C2_Witness ==
  /\ Runs("exit") /\ argc >= 3 /\ argv[3] = Decimal(255)
  /\ Reports # {}

(***************************************************************************)
(* C3. Session creation is not idempotent: in a process that is not a      *)
(* process-group leader the first setsid() succeeds and every later        *)
(* setsid() of that process fails with EPERM; so `double-setsid` run in    *)
(* such a process prints an OK line and exits 0, and no run ever reaches   *)
(* the second_setsid_should_fail_eperm branch.                             *)
(***************************************************************************)
C3_SetsidNotIdempotent ==
  /\ (Runs("double-setsid") /\ attr = "inherit" /\ hpc # "main") =>
       getsid(proc, hpid) = hpid
  /\ (Spawned /\ proc[hpid].state \in Live /\ getsid(proc, hpid) = hpid) =>
       LET r == setsid(proc, hpid) IN r.ret < 0 /\ r.errno = EPERM
  /\ (Runs("double-setsid") /\ attr = "inherit" /\ Exited) =>
       /\ Len(out) = 1
       /\ out[1].tag = "OK"
       /\ ExitStatus(hpid) = ExitOK
  /\ \A i \in 1..Len(out) : Msg(out[i]) # "second_setsid_should_fail_eperm"

\* double-setsid has run both calls in a process that led no group.
C3_Witness ==
  /\ Runs("double-setsid") /\ attr = "inherit" /\ Exited
  /\ out[1].tag = "OK"

(***************************************************************************)
(* C4. `stop-exit c` stops itself before it writes anything; while it is   *)
(* stopped a wait reports Stopped and does not reap it, and after a        *)
(* Stopped or Continued report the handle is still waitable; the OK line   *)
(* and the Exited(c) outcome come only after a SIGCONT was delivered; the  *)
(* outcomes of the handle come in the order stop, continue, exit.          *)
(***************************************************************************)
C4_StopThenContinueThenExit ==
  Runs("stop-exit") =>
    /\ hpc = "main" => out = <<>>
    /\ proc[hpid].state = "stopped" =>
         /\ out = <<>>
         /\ \A i \in Reports : Outcome(i) = "Stopped"
    /\ (Reports # {} /\ waitLog[Len(waitLog)].ret = hpid
          /\ Outcome(Len(waitLog)) \in {"Stopped", "Continued"}) =>
         proc[hpid].state \in {"running", "stopped", "zombie"}
    /\ (out # <<>> \/ \E i \in Reports : Outcome(i) = "Exited") =>
         contDelivered >= 1
    /\ \A i \in Reports, j \in Reports :
         i < j => Rank(Outcome(i)) < Rank(Outcome(j))
    /\ \A i \in Reports :
         /\ Outcome(i) \in {"Stopped", "Continued", "Exited"}
         /\ (Outcome(i) = "Exited" /\ code \in 0..255) =>
              swift_WEXITSTATUS(waitLog[i].status) = code

\* The test process has seen stop, continue and exit of `stop-exit 7`.
C4_Witness ==
  /\ Runs("stop-exit") /\ code = 7
  /\ Len(waitLog) = 3
  /\ Outcome(1) = "Stopped" /\ Outcome(2) = "Continued"
  /\ Outcome(3) = "Exited"
  /\ Len(out) = 1

(***************************************************************************)
(* C5. `fork-exit c` with c in 0..255: whenever fork() and waitpid()       *)
(* succeed, the parent has reaped the child, prints                        *)
(* `OK pid=<self> child=<childpid> child_exit=<c>` and exits 0, under      *)
(* every interleaving. waitpid() succeeds unless SIGCHLD is ignored.       *)
(***************************************************************************)
C5_ForkExitReportsChild ==
  (Runs("fork-exit") /\ code \in 0..255 /\ Exited /\ child > 0) =>
    /\ Len(out) = 1
    /\ Msg(out[1]) = "waitpid_failed" => sigchldIgn
    /\ Msg(out[1]) # "waitpid_failed" =>
         /\ out[1] = [by |-> hpid, tag |-> "OK",
                      kv |-> << <<"pid", hpid>>, <<"child", child>>,
                                <<"child_exit", code>> >>]
         /\ proc[child].state = "reaped"
         /\ ExitStatus(hpid) = ExitOK

\* `fork-exit 42` has reported its child.
C5_Witness ==
  /\ Runs("fork-exit") /\ code = 42 /\ Exited /\ child > 0
  /\ out[1].tag = "OK"

(***************************************************************************)
(* C6. A child is reaped at most once: after a wait on a handle returned   *)
(* Exited or Signaled (as the waitpid of `fork-exit` does for its child),  *)
(* every later wait on that handle fails with ECHILD and returns no        *)
(* status; after a wait that returned Stopped or Continued the handle is   *)
(* still waitable.                                                         *)
(***************************************************************************)
C6_ReapedAtMostOnce ==
  /\ \A i \in Reports :
       Outcome(i) \in {"Exited", "Signaled"} =>
         \A j \in 1..Len(waitLog) :
           j > i => /\ waitLog[j].ret = -1
                    /\ waitLog[j].errno = ECHILD
                    /\ waitLog[j].status = 0
  /\ (Reports # {} /\ waitLog[Len(waitLog)].ret = hpid
        /\ Outcome(Len(waitLog)) \in {"Stopped", "Continued"}) =>
       \A opts \in SUBSET {"WUNTRACED", "WCONTINUED"} :
         waitpid(proc, TestPid, hpid, opts).errno # ECHILD
  /\ (Runs("fork-exit") /\ child > 0 /\ out # <<>> /\ out[1].tag = "OK") =>
       LET r == waitpid(proc, hpid, child, {})
       IN  r.ret = -1 /\ r.errno = ECHILD

\* A second wait has been made after one that returned Signaled.
C6_Witness ==
  /\ Spawned
  /\ Len(waitLog) >= 2
  /\ waitLog[1].ret = hpid
  /\ Outcome(1) = "Signaled"
  /\ waitLog[2].errno = ECHILD

(***************************************************************************)
(* C7. After a successful setpgid(0, 0) in `become-group-leader` or        *)
(* setpgid(pid, pid) in `setpgid-explicit`, the group id queried next is   *)
(* the process's own pid: both commands print an OK line whose pgid field  *)
(* equals its pid field and exit 0, the not_group_leader and pgid_not_set  *)
(* branches are never taken, and the two calls have the same effect.       *)
(***************************************************************************)
C7_SetpgidMakesLeader ==
  /\ (Spawned /\ hpc \in {"become_group_leader_verify",
                          "setpgid_explicit_verify"}) =>
       getpgid(proc, hpid) = hpid
  /\ \A i \in 1..Len(out) :
       Msg(out[i]) \notin {"not_group_leader", "pgid_not_set"}
  /\ ((Runs("become-group-leader") \/ Runs("setpgid-explicit")) /\ Exited) =>
       /\ Len(out) = 1
       /\ Msg(out[1]) \notin {"setpgid_failed", "setpgid_explicit_failed"} =>
            /\ out[1].tag = "OK"
            /\ Keys(out[1]) = <<"pid", "ppid", "pgid", "sid", "exit">>
            /\ Field(out[1], "pgid") = Field(out[1], "pid")
            /\ Field(out[1], "pid") = hpid
            /\ ExitStatus(hpid) = ExitOK
  /\ ((Runs("become-group-leader") \/ Runs("setpgid-explicit"))
        /\ hpc = "main") =>
       setpgid(proc, hpid, 0, 0) = setpgid(proc, hpid, hpid, hpid)

\* setpgid-explicit has moved a helper out of its parent's group.
C7_Witness ==
  /\ Runs("setpgid-explicit") /\ attr = "inherit" /\ Exited
  /\ out[1].tag = "OK"
  /\ getpgid(proc, hpid) = hpid

(***************************************************************************)
(* C8. `verify-parent p` exits 0 and prints an OK line if and only if the  *)
(* helper's parent pid equals p; otherwise it exits 1 and prints an ERR    *)
(* line with msg=ppid_mismatch, expected=p and actual=the parent pid.      *)
(***************************************************************************)
C8_VerifyParent ==
  (Runs("verify-parent") /\ argc >= 3 /\ Exited) =>
    LET p == atoi(argv[3])
        actual == getppid(proc, hpid)
    IN  /\ Len(out) = 1
        /\ (out[1].tag = "OK" /\ ExitStatus(hpid) = ExitOK) <=> p = actual
        /\ p = actual => out[1] = print_status(proc, hpid, "OK", 0)
        /\ p # actual =>
             /\ ExitStatus(hpid) = W_EXITCODE(1, 0)
             /\ out[1] = [by |-> hpid, tag |-> "ERR",
                          kv |-> << <<"errno", 0>>, <<"msg", "ppid_mismatch">>,
                                    <<"expected", p>>, <<"actual", actual>> >>]

\* verify-parent was given the helper's own pid and reported the mismatch.
C8_Witness ==
  /\ Runs("verify-parent") /\ argc >= 3 /\ Exited
  /\ atoi(argv[3]) = hpid
  /\ out[1].tag = "ERR"

(***************************************************************************)
(* C9. As claimed: every invocation with a recognized command has written  *)
(* exactly one line to standard output when it terminates, on every path,  *)
(* with or without its argument, the forked child's output included.       *)
(***************************************************************************)
C9_Claimed_OneLineAlways ==
  (Spawned /\ argc >= 2 /\ cmd \in Commands /\ Exited) => Len(out) = 1

(***************************************************************************)
(* C9, amended. Every invocation with a recognized command has written     *)
(* exactly one line to standard output when it terminates, the forked      *)
(* child writing none, except `verify-parent` without its argument, which  *)
(* writes nothing to standard output and one line to standard error.       *)
(***************************************************************************)
C9_OneLineUnlessArgumentMissing ==
  (Spawned /\ argc >= 2 /\ cmd \in Commands) =>
    /\ Len(out) <= 1
    /\ \A i \in 1..Len(out) : out[i].by = hpid
    /\ Exited =>
         IF cmd = "verify-parent" /\ argc < 3
           THEN out = <<>> /\ Len(err) = 1
           ELSE Len(out) = 1 /\ err = <<>>

\* fork-exit has terminated after its child did, with one line written.
C9_Witness ==
  /\ Runs("fork-exit") /\ Exited /\ child > 0
  /\ proc[child].state = "reaped"
  /\ Len(out) = 1

(***************************************************************************)
(* The protocol grammar of the helper's standard output.                   *)
(***************************************************************************)
MsgTokens ==
  {"ppid_mismatch", "setsid_failed", "first_setsid_failed",
   "second_setsid_should_fail_eperm", "setpgid_failed", "not_group_leader",
   "setpgid_explicit_failed", "pgid_not_set", "fork_failed",
   "waitpid_failed"}

\* OK pid=<int> ppid=<int> pgid=<int> sid=<int> exit=<int>
IsStatusLine(line) ==
  /\ line.tag = "OK"
  /\ Keys(line) = <<"pid", "ppid", "pgid", "sid", "exit">>
  /\ \A i \in 1..5 : line.kv[i][2] \in Int

\* ERR errno=<int> msg=<token>[ <key>=<value>]*
IsErrorLine(line) ==
  /\ line.tag = "ERR"
  /\ Len(line.kv) >= 2
  /\ line.kv[1][1] = "errno" /\ line.kv[1][2] \in Int
  /\ line.kv[2][1] = "msg" /\ line.kv[2][2] \in MsgTokens

\* OK pid=<int> child=<int> child_exit=<int>
IsForkExitLine(line) ==
  /\ line.tag = "OK"
  /\ Keys(line) = <<"pid", "child", "child_exit">>
  /\ \A i \in 1..3 : line.kv[i][2] \in Int

SpawnedAsLeader == Spawned /\ attr \in {"setpgroup", "setsid"}

\* The session the helper was spawned into.
SpawnSid == IF attr = "setsid" THEN hpid ELSE proc[TestPid].sid

(***************************************************************************)
(* C12. setsid() called by a process that leads a process group fails with *)
(* EPERM and changes no process's group or session; `create-session` run   *)
(* in such a process prints `ERR errno=<EPERM> msg=setsid_failed` and      *)
(* exits 1, and `double-setsid` prints first_setsid_failed, exits 1 and    *)
(* never attempts the second call.                                         *)
(***************************************************************************)
C12_SetsidByGroupLeaderFails ==
  /\ \A p \in Pids :
       (proc[p].state \in Live /\ getpgid(proc, p) = p) =>
         /\ setsid(proc, p).ret = -1
         /\ setsid(proc, p).errno = EPERM
         /\ setsid(proc, p).proc = proc
  /\ (SpawnedAsLeader /\ argc >= 2
        /\ cmd \in {"create-session", "double-setsid"}) =>
       /\ getpgid(proc, hpid) = hpid
       /\ getsid(proc, hpid) = SpawnSid
       /\ hpc # "double_setsid_second"
       /\ Exited =>
            /\ out = <<print_error(hpid, EPERM,
                                   IF cmd = "create-session"
                                     THEN "setsid_failed"
                                     ELSE "first_setsid_failed")>>
            /\ ExitStatus(hpid) = W_EXITCODE(1, 0)

\* create-session, in a helper spawned to lead its own group, has failed.
C12_Witness ==
  /\ Runs("create-session") /\ attr = "setpgroup" /\ Exited
  /\ getpgid(proc, hpid) = hpid /\ getsid(proc, hpid) # hpid
  /\ out # <<>> /\ Msg(out[1]) = "setsid_failed"

(***************************************************************************)
(* C13. In every reachable state each process is a member of exactly one   *)
(* process group and one session, both led by some pid; a session leader   *)
(* (pid = sid) is also the leader of its group (pid = pgid), and the       *)
(* members of one group share one session. The OK line printed after a     *)
(* successful setsid() in `create-session` or `double-setsid` reports      *)
(* pid = pgid = sid, and the ppid it reports is the one the helper had     *)
(* before the call.                                                        *)
(***************************************************************************)
C13_OneGroupOneSession ==
  /\ \A p \in Pids :
       proc[p].state \in Live =>
         /\ getpgid(proc, p) \in Pids
         /\ getsid(proc, p) \in Pids
         /\ getsid(proc, p) = p => getpgid(proc, p) = p
         /\ \A q \in Pids :
              (proc[q].state \in Live /\ getpgid(proc, q) = getpgid(proc, p))
                => getsid(proc, q) = getsid(proc, p)
  /\ (Spawned /\ proc[hpid].state \in Live) => getppid(proc, hpid) = TestPid
  /\ (Spawned /\ argc >= 2 /\ cmd \in {"create-session", "double-setsid"}) =>
       \A i \in 1..Len(out) :
         out[i].tag = "OK" =>
           /\ Field(out[i], "pid") = hpid
           /\ Field(out[i], "pgid") = hpid
           /\ Field(out[i], "sid") = hpid
           /\ Field(out[i], "ppid") = TestPid

\* create-session has succeeded in a helper spawned into its parent's group.
C13_Witness ==
  /\ Runs("create-session") /\ attr = "inherit" /\ Exited
  /\ out # <<>> /\ out[1].tag = "OK"
  /\ Field(out[1], "sid") = hpid /\ getsid(proc, hpid) # getsid(proc, TestPid)

\* The waits of the parent that reported the helper's normal termination.
ExitReports == {i \in Reports : swift_WIFEXITED(waitLog[i].status) # 0}

(***************************************************************************)
(* C14. As claimed: for `exit <code>` and `stop-exit <code>` with any      *)
(* integer argument, negative values and values above 255 included, the    *)
(* exit field printed in the OK line equals the exit code the parent       *)
(* decodes from the wait status with swift_WEXITSTATUS.                    *)
(***************************************************************************)
C14_Claimed_PrintedEqualsDecoded ==
  (Spawned /\ argc >= 2 /\ cmd \in {"exit", "stop-exit"}) =>
    \A i \in ExitReports :
      /\ Len(out) = 1
      /\ swift_WEXITSTATUS(waitLog[i].status) = Field(out[1], "exit")

(***************************************************************************)
(* C14, amended. For `exit <code>` and `stop-exit <code>` the exit field   *)
(* printed in the OK line is the integer atoi read, unmasked, and the exit *)
(* code the parent decodes with swift_WEXITSTATUS is that integer's low    *)
(* eight bits (the value modulo 256); the two are equal exactly when the   *)
(* argument is in 0..255.                                                  *)
(***************************************************************************)
C14_DecodedIsPrintedMod256 ==
  (Spawned /\ argc >= 2 /\ cmd \in {"exit", "stop-exit"}) =>
    /\ \A i \in 1..Len(out) : Field(out[i], "exit") = code
    /\ \A i \in ExitReports :
         /\ Len(out) = 1
         /\ swift_WEXITSTATUS(waitLog[i].status)
              = Field(out[1], "exit") % 256
         /\ swift_WEXITSTATUS(waitLog[i].status) = Field(out[1], "exit")
              <=> Field(out[1], "exit") \in 0..255

\* The parent has decoded 1 from a `stop-exit 257` that printed exit=257.
C14_Witness ==
  /\ Runs("stop-exit") /\ argc >= 3 /\ argv[3] = Decimal(257)
  /\ out # <<>> /\ Field(out[1], "exit") = 257
  /\ \E i \in ExitReports : swift_WEXITSTATUS(waitLog[i].status) = 1

\* The invocations that end without a line on standard output.
WritesOnlyToStderr ==
  IF argc < 2 THEN TRUE
  ELSE \/ cmd \notin Commands
       \/ cmd = "verify-parent" /\ argc < 3

ExitFailure == W_EXITCODE(1, 0)

(***************************************************************************)
(* C15. For every invocation other than `exit` and `stop-exit`, once the   *)
(* helper has terminated its exit status agrees with its output: the       *)
(* status is 0 if and only if the line it wrote to standard output starts  *)
(* with OK, and it is 1 whenever it wrote an ERR line or wrote nothing to  *)
(* standard output, the latter being exactly the cases of a missing        *)
(* command, a missing verify-parent argument and an unknown command,       *)
(* which write to standard error.                                          *)
(***************************************************************************)
C15_ExitStatusAgreesWithOutput ==
  (Exited /\ (argc >= 2 => cmd \notin {"exit", "stop-exit"})) =>
    /\ Len(out) <= 1
    /\ ExitStatus(hpid) \in {ExitOK, ExitFailure}
    /\ ExitStatus(hpid) = ExitOK <=> (out # <<>> /\ out[1].tag = "OK")
    /\ (out = <<>> \/ out[1].tag = "ERR") => ExitStatus(hpid) = ExitFailure
    /\ out = <<>> <=> WritesOnlyToStderr
    /\ out = <<>> <=> err # <<>>

\* An unknown command has ended with status 1 and nothing on standard output.
C15_Witness ==
  /\ Spawned /\ argc >= 2 /\ cmd \notin Commands /\ Exited
  /\ out = <<>> /\ err # <<>>
  /\ ExitStatus(hpid) = ExitFailure

\* What holds of a `fork-exit` run in every state.
ForkExitChildSilent ==
  (Runs("fork-exit") /\ child > 0) =>
    /\ \A i \in 1..Len(out) : out[i].by = hpid
    /\ \A q \in Pids : proc[q].state # "free" => getppid(proc, q) # child
    /\ proc[child].state = "running" =>
         out = <<>> /\ hpc = "fork_exit_wait"
    /\ \A i \in 1..Len(out) :
         out[i].tag = "OK" =>
           /\ proc[child].state = "reaped"
           /\ ExitStatus(child) = W_EXITCODE(code % 256, 0)

\* The step in which the child stops running: it terminates with its code
\* and nothing else changes.
ForkExitChildStep ==
  (child > 0 /\ proc[child].state = "running"
     /\ proc'[child].state # "running") =>
    /\ proc'[child].state \in {"zombie", "reaped"}
    /\ proc'[child].status = W_EXITCODE(code % 256, 0)
    /\ \A q \in Pids \ {child} : proc'[q] = proc[q]
    /\ UNCHANGED <<spawnVars, hpc, child, out, err, testVars>>

\* The step in which the parent of `fork-exit` writes: the child has
\* terminated before it, and an OK line goes with the reaping of the child.
ForkExitParentStep ==
  (Runs("fork-exit") /\ child > 0 /\ out' # out) =>
    /\ Terminated(child)
    /\ out'[Len(out')].tag = "OK" =>
         proc[child].state = "zombie" /\ proc'[child].state = "reaped"

(***************************************************************************)
(* C16. In `fork-exit`, under every interleaving of the two processes, the *)
(* forked child does nothing but terminate with _exit(code): every line on *)
(* standard output is written by the parent, the child has no children and *)
(* obtains no status, and the step that ends it changes nothing else; the  *)
(* parent writes nothing while the child runs, and writes its OK line only *)
(* in reaping the terminated child.                                        *)
(***************************************************************************)
C16_ChildOnlyExits ==
  /\ []ForkExitChildSilent
  /\ [][ForkExitChildStep /\ ForkExitParentStep]_vars

\* `fork-exit 7`: the child has terminated with 7 and the parent, having
\* reaped it, has written the one line there is.
C16_Witness ==
  /\ Runs("fork-exit") /\ code = 7 /\ Exited /\ child > 0
  /\ proc[child].state = "reaped" /\ ExitStatus(child) = W_EXITCODE(7, 0)
  /\ Len(out) = 1 /\ out[1].by = hpid /\ out[1].tag = "OK"

=============================================================================
